---- MODULE Spec2Model ----
(***************************************************************************)
(* Model of the product upload and reconciliation code of                  *)
(* e_commerce_platform/products (upload_data.py, models.py).               *)
(*                                                                         *)
(* The Product table is a sequence of rows in insertion order; a row's pk  *)
(* is its position (rows are never deleted).  FloatField values (price,    *)
(* rating) are exact rationals [n, d] in lowest terms, so the merge        *)
(* arithmetic is computed as written, without rounding.  Strings that the  *)
(* code lower-cases are sequences of one-character strings.                *)
(*                                                                         *)
(* Each upload call runs in a process of Procs.  A step of a process is    *)
(* one database statement of upload_data_in_batches or of                  *)
(* modify_already_existing_data (bulk INSERT, INSERT, SELECT, UPDATE)      *)
(* together with the Python code up to the next statement.  Spec runs the  *)
(* upload calls one after another; ConcSpec interleaves their statements.  *)
(***************************************************************************)
EXTENDS Integers, Sequences, FiniteSets, TLC

VARIABLES
    store,                 \* the Product table
    pc,                    \* where each upload call stands
    instances,             \* table_instances of each call
    batch_size,            \* batch_size of each call
    batch_start,           \* bacth_start of each call (0-based)
    a_instance_index,      \* a_instance_index of each call (0-based)
    existing_product_obj,  \* the row a call's merge has fetched
    outcome,               \* history: what became of each instance of a call
    store0,                \* history: the table when the call began
    batch0,                \* history: the table when the call's batch began
    last,                  \* history: the last statement and its effect
    used,                  \* instances handed to upload calls so far
    saves,                 \* history: save() calls made for each instance
    response,              \* what each caller's last request returned
    csv,                   \* the rows read from the file at csv_path
    df                     \* the frame extract_and_clean_product_data returns

\* What upload_data_in_batches and modify_already_existing_data work on.
upload_vars == <<store, pc, instances, batch_size, batch_start,
                 a_instance_index, existing_product_obj, outcome, store0,
                 batch0, last, used, saves>>

vars == <<store, pc, instances, batch_size, batch_start, a_instance_index,
          existing_product_obj, outcome, store0, batch0, last, used, saves,
          response, csv, df>>

----------------------------------------------------------------------------
(* Bounds of the model. *)

\* Records handed to upload calls, over all calls of a behaviour of Spec.
MaxRecords == 4

\* The same, over all calls of a behaviour of ConcSpec.
MaxConcRecords == 3

\* Largest batch_size an upload call is given.
MaxBatch == 3

\* The upload calls that may be in progress at once.
Procs == {"u1", "u2"}

----------------------------------------------------------------------------
(* Strings and str.lower() *)

UpperLetters == <<"A","B","C","D","E","F","G","H","I","J","K","L","M",
                  "N","O","P","Q","R","S","T","U","V","W","X","Y","Z">>

LowerLetters == <<"a","b","c","d","e","f","g","h","i","j","k","l","m",
                  "n","o","p","q","r","s","t","u","v","w","x","y","z">>

LowerChar(c) ==
    IF \E i \in DOMAIN UpperLetters : UpperLetters[i] = c
    THEN LowerLetters[CHOOSE i \in DOMAIN UpperLetters : UpperLetters[i] = c]
    ELSE c

\* str.lower(): every cased character mapped to lower case, the rest kept.
Lower(s) == [i \in DOMAIN s |-> LowerChar(s[i])]

----------------------------------------------------------------------------
(* Float values as exact rationals *)

\* Euclid's algorithm, as a function: its arguments are values.
GcdOf[a \in Nat, b \in Nat] == IF b = 0 THEN a ELSE GcdOf[b, a % b]

Gcd(a, b) == GcdOf[a, b]

Abs(x) == IF x < 0 THEN -x ELSE x

\* n/d in lowest terms, d > 0.
Rat(n, d) ==
    LET g == Gcd(Abs(n), Abs(d))
        s == IF d < 0 THEN -1 ELSE 1
    IN  [n |-> (s * n) \div g, d |-> (s * d) \div g]

Num(k) == [n |-> k, d |-> 1]

RatAdd(x, y) == Rat(x.n * y.d + y.n * x.d, x.d * y.d)

\* x * k for an integer k.
RatTimes(x, k) == Rat(x.n * k, x.d)

\* x / k for an integer k # 0.
RatOver(x, k) == Rat(x.n, x.d * k)

RatLeq(x, y) == x.n * y.d <= y.n * x.d

----------------------------------------------------------------------------
(* Product instances and rows *)

Widget  == <<"W","i","d","g","e","t">>
widget  == <<"w","i","d","g","e","t">>
Gadget  == <<"G","a","d","g","e","t">>
gadget  == <<"g","a","d","g","e","t">>
Tools   == <<"T","o","o","l","s">>
tools   == <<"t","o","o","l","s">>
Toys    == <<"T","o","y","s">>
toys    == <<"t","o","y","s">>

\* An unsaved Product instance, as create_table_instances builds it from a row.
Product(id, name, cat, price, qty, rating, reviews) ==
    [product_id |-> id, product_name |-> name, category |-> cat,
     price |-> Num(price), quantity_sold |-> qty,
     rating |-> Num(rating), review_count |-> reviews]

\* The instances upload calls are given.  Two product_ids; names and
\* categories that agree exactly, only up to letter case, or not at all;
\* quantities 0, 1 and 2 (so the merged quantity can be 0, 1 or more);
\* ratings within 0..5.
Catalog ==
    { Product("p1", widget, tools, 20, 2, 5, 2),
      Product("p1", Gadget, Tools,  5, 1, 3, 1),
      Product("p1", Widget, Toys,   5, 1, 3, 1),
      Product("p1", Widget, Tools, 10, 0, 4, 1),
      Product("p1", widget, tools, 20, 0, 5, 2),
      Product("p2", Gadget, Toys,   5, 1, 3, 0),
      Product("p2", gadget, toys,   8, 2, 5, 2) }

\* The row an INSERT of inst adds to table s.
Row(s, inst) ==
    [pk |-> Len(s) + 1,
     product_id |-> inst.product_id, product_name |-> inst.product_name,
     category |-> inst.category, price |-> inst.price,
     quantity_sold |-> inst.quantity_sold, rating |-> inst.rating,
     review_count |-> inst.review_count]

\* The instance fields of a row.
Fields(row) ==
    [product_id |-> row.product_id, product_name |-> row.product_name,
     category |-> row.category, price |-> row.price,
     quantity_sold |-> row.quantity_sold, rating |-> row.rating,
     review_count |-> row.review_count]

Ids(s) == {s[i].product_id : i \in DOMAIN s}

\* Product.objects.filter(product_id=...): the matching rows, in table order.
Filter(s, id) == SelectSeq(s, LAMBDA row : row.product_id = id)

----------------------------------------------------------------------------
(* The store's statements *)

\* A Product model whose product_id is not declared unique.
UniqueViolation_Unchecked(s, inst) == FALSE

\* unique=True on product_id: an INSERT of inst into s is refused.
UniqueViolation(s, inst) == inst.product_id \in Ids(s)

\* instance.save() of an unsaved instance: one INSERT.
Save(s, inst) ==
    IF UniqueViolation(s, inst)
    THEN [exc |-> "IntegrityError", store |-> s]
    ELSE [exc |-> "None", store |-> Append(s, Row(s, inst))]

\* objects.bulk_create(batch): one atomic INSERT of all the rows; a refused
\* row refuses the statement and nothing of the batch is kept.
RECURSIVE BulkInsert(_, _, _)
BulkInsert(s0, s, batch) ==
    IF batch = <<>> THEN [exc |-> "None", store |-> s]
    ELSE LET r == Save(s, Head(batch))
         IN  IF r.exc # "None" THEN [exc |-> r.exc, store |-> s0]
             ELSE BulkInsert(s0, r.store, Tail(batch))

\* A bulk insert outside a transaction: the rows inserted before the
\* refused one are kept.
BulkCreate_NotAtomic(s, batch) ==
    LET Prefix(k) == BulkInsert(s, s, SubSeq(batch, 1, k))
        kept == CHOOSE k \in 0 .. Len(batch) :
                    /\ Prefix(k).exc = "None"
                    /\ k < Len(batch) => Prefix(k + 1).exc # "None"
    IN  IF kept = Len(batch) THEN Prefix(kept)
        ELSE [exc |-> Prefix(kept + 1).exc, store |-> Prefix(kept).store]

BulkCreate(s, batch) == BulkInsert(s, s, batch)

\* existing.save() of a fetched row: UPDATE of every field WHERE pk = row.pk.
SaveExisting(s, row) == [s EXCEPT ![row.pk] = row]

----------------------------------------------------------------------------
(* modify_already_existing_data: the comparison and the merge arithmetic *)

\* A comparison that forgets the category.
IdentityMatches_NameOnly(inc, existing) ==
    Lower(inc.product_name) = Lower(existing.product_name)

IdentityMatches(inc, existing) ==
    /\ Lower(inc.product_name) = Lower(existing.product_name)
    /\ Lower(inc.category) = Lower(existing.category)

NewReviewCount(existing, inc) == existing.review_count + inc.review_count

NewQuantitySold(existing, inc) == existing.quantity_sold + inc.quantity_sold

\* (existing.v * existing.quantity_sold) + (inc.v * inc.quantity_sold) / nq,
\* with Python's precedence: only the incoming term is divided.  nq # 0.
NewValue(ev, eq, iv, iq, nq) ==
    RatAdd(RatTimes(ev, eq), RatOver(RatTimes(iv, iq), nq))

\* The summed quantity stored instead of the incoming one.
StoredQuantitySold_Sum(existing, inc) ==
    existing.quantity_sold + inc.quantity_sold

\* The quantity_sold assigned to the existing row before it is saved.
StoredQuantitySold(existing, inc) == inc.quantity_sold

\* A merge that also takes the incoming record's name and category.
Merge_TakesIncomingNames(existing, inc) ==
    LET new_review_count == NewReviewCount(existing, inc)
        new_quantity_sold == NewQuantitySold(existing, inc)
    IN  IF new_quantity_sold = 0
        THEN [exc |-> "ZeroDivisionError", row |-> existing]
        ELSE [exc |-> "None",
              row |-> [existing EXCEPT
                 !.product_name = inc.product_name,
                 !.category = inc.category,
                 !.price = NewValue(existing.price, existing.quantity_sold,
                                    inc.price, inc.quantity_sold,
                                    new_quantity_sold),
                 !.rating = NewValue(existing.rating, existing.quantity_sold,
                                     inc.rating, inc.quantity_sold,
                                     new_quantity_sold),
                 !.review_count = new_review_count,
                 !.quantity_sold = StoredQuantitySold(existing, inc)]]

\* Lines 84-99: the row to save, or the exception the arithmetic raises.
Merge(existing, inc) ==
    LET new_review_count == NewReviewCount(existing, inc)
        new_quantity_sold == NewQuantitySold(existing, inc)
    IN  IF new_quantity_sold = 0
        THEN [exc |-> "ZeroDivisionError", row |-> existing]
        ELSE [exc |-> "None",
              row |-> [existing EXCEPT
                 !.price = NewValue(existing.price, existing.quantity_sold,
                                    inc.price, inc.quantity_sold,
                                    new_quantity_sold),
                 !.rating = NewValue(existing.rating, existing.quantity_sold,
                                     inc.rating, inc.quantity_sold,
                                     new_quantity_sold),
                 !.review_count = new_review_count,
                 !.quantity_sold = StoredQuantitySold(existing, inc)]]

\* A handler that lets the exception go on to the caller.
ModifyHandler_Reraise(exc) == "raise"

\* except Exception as e: print(e) -- what the handler of
\* modify_already_existing_data does with an exception raised in its body.
ModifyHandler(exc) == "print"

\* A loop that stops at the first refused record.
SaveHandler_BreakOnConflict(exc) ==
    CASE exc = "None" -> "next"
      [] exc = "IntegrityError" -> "break"
      [] exc = "IndexError" -> "break"
      [] OTHER -> "print"

\* A loop that calls modify_already_existing_data after every save.
SaveHandler_AlwaysModify(exc) ==
    CASE exc = "None" -> "modify"
      [] exc = "IntegrityError" -> "modify"
      [] exc = "IndexError" -> "break"
      [] OTHER -> "print"

\* The except clauses around table_instances[i].save(), in their order.
SaveHandler(exc) ==
    CASE exc = "None" -> "next"
      [] exc = "IntegrityError" -> "modify"
      [] exc = "IndexError" -> "break"
      [] OTHER -> "print"

\* table_instances[i].save() for a 0-based index i: the subscript raises
\* IndexError past the end of the list, before any statement is sent.
SaveAt(s, list, i) ==
    IF i >= Len(list) THEN [exc |-> "IndexError", store |-> s]
    ELSE Save(s, list[i + 1])

\* table_instances[batch_start : batch_start + batch_size]
Slice(list, start, size) ==
    SubSeq(list, start + 1, IF start + size < Len(list) THEN start + size
                            ELSE Len(list))

----------------------------------------------------------------------------
(* The upload calls *)

NoRow == [pk |-> 0]

UploadInit ==
    /\ store = <<>>
    /\ pc = [p \in Procs |-> "idle"]
    /\ instances = [p \in Procs |-> <<>>]
    /\ batch_size = [p \in Procs |-> 1]
    /\ batch_start = [p \in Procs |-> 0]
    /\ a_instance_index = [p \in Procs |-> 0]
    /\ existing_product_obj = [p \in Procs |-> NoRow]
    /\ outcome = [p \in Procs |-> <<>>]
    /\ store0 = [p \in Procs |-> <<>>]
    /\ batch0 = [p \in Procs |-> <<>>]
    /\ last = [op |-> "none"]
    /\ used = 0
    /\ saves = [p \in Procs |-> <<>>]

\* No request has been answered, no file read, no frame built.
NoResponse == [view |-> "none"]

NoFrame == [cleaned |-> FALSE, rows |-> <<>>]

Init ==
    /\ UploadInit
    /\ response = [p \in Procs |-> NoResponse]
    /\ csv = <<>>
    /\ df = NoFrame

Resting(p) == pc[p] \in {"idle", "raised"}

\* upload_data_in_batches(Product, list, size) is called.
Upload(p, limit) ==
    /\ Resting(p)
    /\ \E n \in 0 .. (limit - used) :
       \E list \in [1 .. n -> Catalog] :
       \E size \in 1 .. MaxBatch :
          /\ instances' = [instances EXCEPT ![p] = list]
          /\ batch_size' = [batch_size EXCEPT ![p] = size]
          /\ outcome' = [outcome EXCEPT ![p] = [i \in 1 .. n |-> "none"]]
          /\ saves' = [saves EXCEPT ![p] = [i \in 1 .. n |-> 0]]
          /\ used' = used + n
    /\ pc' = [pc EXCEPT ![p] = "for_batch"]
    /\ batch_start' = [batch_start EXCEPT ![p] = 0]
    /\ a_instance_index' = [a_instance_index EXCEPT ![p] = 0]
    /\ store0' = [store0 EXCEPT ![p] = store]
    /\ batch0' = [batch0 EXCEPT ![p] = store]
    /\ existing_product_obj' = [existing_product_obj EXCEPT ![p] = NoRow]
    /\ UNCHANGED <<store, last>>

\* Line 144, past the last batch: the call returns and its locals are gone.
Return(p) ==
    /\ pc[p] = "for_batch"
    /\ batch_start[p] >= Len(instances[p])
    /\ pc' = [pc EXCEPT ![p] = "idle"]
    /\ instances' = [instances EXCEPT ![p] = <<>>]
    /\ batch_size' = [batch_size EXCEPT ![p] = 1]
    /\ batch_start' = [batch_start EXCEPT ![p] = 0]
    /\ a_instance_index' = [a_instance_index EXCEPT ![p] = 0]
    /\ existing_product_obj' = [existing_product_obj EXCEPT ![p] = NoRow]
    /\ outcome' = [outcome EXCEPT ![p] = <<>>]
    /\ store0' = [store0 EXCEPT ![p] = <<>>]
    /\ batch0' = [batch0 EXCEPT ![p] = <<>>]
    /\ saves' = [saves EXCEPT ![p] = <<>>]
    /\ UNCHANGED <<store, last, used>>

\* Lines 144-148: the next batch's bulk_create, and on any exception the
\* start of the one-by-one loop over the batch's index range.
ForBatch(p) ==
    /\ pc[p] = "for_batch"
    /\ batch_start[p] < Len(instances[p])
    /\ LET batch == Slice(instances[p], batch_start[p], batch_size[p])
           r == BulkCreate(store, batch)
       IN  /\ store' = r.store
           /\ batch0' = [batch0 EXCEPT ![p] = store]
           /\ last' = [op |-> "bulk_create", by |-> p, exc |-> r.exc,
                       batch |-> batch, before |-> store, after |-> r.store]
           /\ IF r.exc = "None"
              THEN /\ outcome' = [outcome EXCEPT ![p] =
                          [i \in DOMAIN @ |->
                              IF /\ i > batch_start[p]
                                 /\ i <= batch_start[p] + batch_size[p]
                              THEN "bulk" ELSE @[i]]]
                   /\ batch_start' = [batch_start EXCEPT
                                         ![p] = @ + batch_size[p]]
                   /\ UNCHANGED <<pc, a_instance_index>>
              ELSE /\ pc' = [pc EXCEPT ![p] = "for_instance"]
                   /\ a_instance_index' = [a_instance_index EXCEPT
                                              ![p] = batch_start[p]]
                   /\ UNCHANGED <<outcome, batch_start>>
    /\ UNCHANGED <<instances, batch_size, existing_product_obj, store0, used,
                   saves, response, csv, df>>

\* A range that forgets where the batch starts: range(bacth_start, batch_size).
RangeStop_SizeOnly(start, size) == size

\* The stop of range(bacth_start, bacth_start+batch_size).
RangeStop(start, size) == start + size

\* The end of the one-by-one loop (range exhausted, or break): next batch.
NextBatch(p) ==
    /\ pc' = [pc EXCEPT ![p] = "for_batch"]
    /\ batch_start' = [batch_start EXCEPT ![p] = @ + batch_size[p]]

\* Lines 148-156: one turn of the one-by-one loop, up to the call of
\* modify_already_existing_data.
ForInstance(p) ==
    /\ pc[p] = "for_instance"
    /\ IF a_instance_index[p] >= RangeStop(batch_start[p], batch_size[p])
       THEN /\ NextBatch(p)
            /\ UNCHANGED <<store, a_instance_index, outcome, last, saves>>
       ELSE LET i == a_instance_index[p]
                r == SaveAt(store, instances[p], i)
                h == SaveHandler(r.exc)
            IN  /\ store' = r.store
                /\ saves' = IF r.exc = "IndexError" THEN saves
                            ELSE [saves EXCEPT ![p][i + 1] = @ + 1]
                /\ CASE h = "next" ->
                          /\ outcome' = [outcome EXCEPT ![p][i + 1] = "saved"]
                          /\ a_instance_index' =
                                 [a_instance_index EXCEPT ![p] = i + 1]
                          /\ last' = [op |-> "save", by |-> p, exc |-> r.exc,
                                      inc |-> instances[p][i + 1],
                                      before |-> store, after |-> r.store]
                          /\ UNCHANGED <<pc, batch_start>>
                     [] h = "modify" ->
                          /\ pc' = [pc EXCEPT ![p] = "modify"]
                          /\ outcome' = [outcome EXCEPT
                                            ![p][i + 1] = "conflict"]
                          /\ last' = [op |-> "save", by |-> p, exc |-> r.exc,
                                      inc |-> instances[p][i + 1],
                                      before |-> store, after |-> r.store]
                          /\ UNCHANGED <<a_instance_index, batch_start>>
                     [] h = "break" ->
                          /\ NextBatch(p)
                          /\ UNCHANGED <<a_instance_index, outcome, last>>
                     [] OTHER ->
                          /\ outcome' = [outcome EXCEPT
                                            ![p][i + 1] = "failed"]
                          /\ a_instance_index' =
                                 [a_instance_index EXCEPT ![p] = i + 1]
                          /\ last' = [op |-> "save", by |-> p, exc |-> r.exc,
                                      inc |-> instances[p][i + 1],
                                      before |-> store, after |-> r.store]
                          /\ UNCHANGED <<pc, batch_start>>
    /\ UNCHANGED <<instances, batch_size, existing_product_obj, store0,
                   batch0, used, response, csv, df>>

\* modify_already_existing_data returns to line 152: the loop goes on.
ModifyReturns(p, what) ==
    /\ pc' = [pc EXCEPT ![p] = "for_instance"]
    /\ outcome' = [outcome EXCEPT ![p][a_instance_index[p] + 1] = what]
    /\ a_instance_index' = [a_instance_index EXCEPT ![p] = @ + 1]

\* An exception leaves modify_already_existing_data: raised inside the
\* except IntegrityError clause, it leaves upload_data_in_batches too.
ModifyRaises(p) ==
    /\ pc' = [pc EXCEPT ![p] = "raised"]
    /\ outcome' = [outcome EXCEPT ![p][a_instance_index[p] + 1] = "raised"]
    /\ UNCHANGED a_instance_index

\* Lines 77-82: the SELECT by product_id and the comparison of the names.
Modify(p) ==
    /\ pc[p] = "modify"
    /\ LET inc == instances[p][a_instance_index[p] + 1]
           found == Filter(store, inc.product_id)
       IN  IF found # <<>> /\ IdentityMatches(inc, found[1])
           THEN /\ pc' = [pc EXCEPT ![p] = "merge"]
                /\ existing_product_obj' =
                       [existing_product_obj EXCEPT ![p] = found[1]]
                /\ UNCHANGED <<outcome, a_instance_index, last>>
           ELSE /\ ModifyReturns(p, IF found = <<>> THEN "absent"
                                    ELSE "skipped")
                /\ last' = [op |-> "modify", by |-> p, exc |-> "None",
                            inc |-> inc, merged |-> FALSE,
                            existing |-> IF found = <<>> THEN NoRow
                                         ELSE found[1],
                            before |-> store, after |-> store]
                /\ UNCHANGED existing_product_obj
    /\ UNCHANGED <<store, instances, batch_size, batch_start, store0,
                   batch0, used, saves, response, csv, df>>

\* Lines 84-103: the merge arithmetic and the UPDATE of the fetched row.
MergeAndSave(p) ==
    /\ pc[p] = "merge"
    /\ LET inc == instances[p][a_instance_index[p] + 1]
           r == Merge(existing_product_obj[p], inc)
           after == IF r.exc = "None" THEN SaveExisting(store, r.row)
                    ELSE store
       IN  /\ store' = after
           /\ last' = [op |-> "modify", by |-> p, exc |-> r.exc,
                       inc |-> inc, merged |-> (r.exc = "None"),
                       existing |-> existing_product_obj[p],
                       before |-> store, after |-> after]
           /\ IF r.exc = "None" THEN ModifyReturns(p, "merged")
              ELSE IF ModifyHandler(r.exc) = "print"
                   THEN ModifyReturns(p, "error")
                   ELSE ModifyRaises(p)
    /\ UNCHANGED <<instances, batch_size, batch_start, existing_product_obj,
                   store0, batch0, used, saves, response, csv, df>>

\* upload_data called on its own, no request being answered.
StartUpload(p) == Upload(p, MaxRecords) /\ UNCHANGED <<response, csv, df>>

ConcStartUpload(p) ==
    Upload(p, MaxConcRecords) /\ UNCHANGED <<response, csv, df>>

UploadReturns(p) == Return(p) /\ UNCHANGED <<response, csv, df>>

\* The statements of a call in progress.
Work(p) ==
    \/ ForBatch(p)
    \/ ForInstance(p)
    \/ Modify(p)
    \/ MergeAndSave(p)

\* The steps of a call in progress.
Step(p) ==
    \/ Work(p)
    \/ UploadReturns(p)

\* Upload calls run one at a time: one caller makes them, each after the
\* one before has ended.
Caller == CHOOSE p \in Procs : TRUE

Next == StartUpload(Caller) \/ Step(Caller)

Spec == Init /\ [][Next]_vars

\* Upload calls run concurrently, interleaved statement by statement.
ConcNext == \E p \in Procs : ConcStartUpload(p) \/ Step(p)

ConcSpec == Init /\ [][ConcNext]_vars

\* Instances handed to the calls whose termination is checked.
MaxLiveRecords == 2

LiveStartUpload(p) ==
    Upload(p, MaxLiveRecords) /\ UNCHANGED <<response, csv, df>>

\* A step of the call in progress.
LiveStep == Step(Caller)

LiveNext == LiveStartUpload(Caller) \/ LiveStep

\* The interpreter goes on executing a call in progress: a call that can
\* take a step eventually takes one.
LiveSpec == Init /\ [][LiveNext]_vars /\ WF_vars(LiveStep)

----------------------------------------------------------------------------
(* utils.py: the summary report *)

\* Product.objects.values("category").distinct(): each category value of
\* the table once, compared exactly, in the order of its first row.
Categories(s) ==
    LET First(i) == \A j \in 1 .. (i - 1) : s[j].category # s[i].category
        firsts == SelectSeq([i \in DOMAIN s |-> i], First)
    IN  [k \in DOMAIN firsts |-> s[firsts[k]].category]

\* Product.objects.filter(category=...): the matching rows, in table order.
FilterCategory(s, c) == SelectSeq(s, LAMBDA row : row.category = c)

\* A revenue that forgets the quantity.
Revenue_PriceOnly(product) == product.price

\* product.price * product.quantity_sold
Revenue(product) == RatTimes(product.price, product.quantity_sold)

\* sum([... for product in products]) over the first n products.
RECURSIVE TotalRevenue(_, _)
TotalRevenue(products, n) ==
    IF n = 0 THEN Num(0)
    ELSE RatAdd(TotalRevenue(products, n - 1), Revenue(products[n]))

\* A comparison that lets a later equal item replace the one kept.
Beats_OrTies(item, best) == item.quantity_sold >= best.quantity_sold

\* max() replaces the item it keeps only by one with a strictly larger key.
Beats(item, best) == item.quantity_sold > best.quantity_sold

\* max(products, key=lambda p: p.quantity_sold), scanning from position i
\* with best the item kept so far.
RECURSIVE MaxFrom(_, _, _)
MaxFrom(products, best, i) ==
    IF i > Len(products) THEN best
    ELSE MaxFrom(products,
                 IF Beats(products[i], best) THEN products[i] ELSE best,
                 i + 1)

\* The dict appended to summary_data for one category.
SummaryRow(s, c) ==
    LET products == FilterCategory(s, c)
        top_product == MaxFrom(products, products[1], 2)
    IN  [category |-> c,
         total_revenue |-> TotalRevenue(products, Len(products)),
         top_product |-> top_product.product_name,
         top_product_quantity_sold |-> top_product.quantity_sold]

\* summary_data after the loop over the categories.
SummaryData(s) ==
    LET categories == Categories(s)
    IN  [k \in DOMAIN categories |-> SummaryRow(s, categories[k])]

\* An export that writes nothing for an empty list instead of failing.
ExportToCsv_EmptyIsFine(data) ==
    LET fieldnames == IF data = <<>> THEN <<>>
                      ELSE <<"category", "total_revenue", "top_product",
                             "top_product_quantity_sold">>
    IN  [exc |-> "None",
         output |-> [header |-> fieldnames,
                     rows |-> [k \in DOMAIN data |->
                                 [f \in DOMAIN fieldnames |->
                                     data[k][fieldnames[f]]]]]]

\* export_to_csv: data[0] fails on an empty list; otherwise a header line
\* of the first dict's keys and one line per dict, its values in that order.
ExportToCsv(data) ==
    IF data = <<>> THEN [exc |-> "IndexError"]
    ELSE LET fieldnames == <<"category", "total_revenue", "top_product",
                             "top_product_quantity_sold">>
         IN  [exc |-> "None",
              output |-> [header |-> fieldnames,
                          rows |-> [k \in DOMAIN data |->
                                      [f \in DOMAIN fieldnames |->
                                          data[k][fieldnames[f]]]]]]

\* generate_summary: what it raises or returns.
GenerateSummary(s) == ExportToCsv(SummaryData(s))

\* A summary that deletes the rows it has reported.
SummaryWrites_Consume(s) == <<>>

\* The table after generate_summary: it issues SELECTs only.
SummaryWrites(s) == s

----------------------------------------------------------------------------
(* views.py: the two endpoints *)

HTTP_200_OK == 200

HTTP_400_BAD_REQUEST == 400

HTTP_500 == 500

DATA_UPLOAD_FAILURE_MESSAGE == "DATA_UPLOAD_FAILURE_MESSAGE"

DATA_UPLOAD_SUCCESSFUL_MESSAGE == "DATA_UPLOAD_SUCCESSFUL_MESSAGE"

SUMMARY_REPORT_FAILURE_MESSAGE == "SUMMARY_REPORT_FAILURE_MESSAGE"

\* Instances one caller hands to the endpoints' uploads in a run.
MaxViewRecords == 3

\* What the try block of UploadData.post can raise before the first store
\* statement: data["csv_path"] (KeyError), pd.read_csv (FileNotFoundError),
\* table(**row) on a column that is no Product field (TypeError).
SetupErrors == {"KeyError", "FileNotFoundError", "TypeError"}

\* The res dict prepared before the try block.
FailureRes == [success |-> FALSE, message |-> DATA_UPLOAD_FAILURE_MESSAGE]

\* The res dict assigned after upload_data returned.
SuccessRes == [success |-> TRUE, message |-> DATA_UPLOAD_SUCCESSFUL_MESSAGE]

\* UploadData.post when setup raises e: the except clause returns
\* Response(e), the exception object as data, status left at its default.
\* raised records what the try block raised.
PostFails(p) ==
    /\ Resting(p)
    /\ \E e \in SetupErrors :
          response' = [response EXCEPT ![p] =
                          [view |-> "upload", raised |-> e,
                           data |-> [exception |-> e],
                           status |-> HTTP_200_OK]]
    /\ UNCHANGED <<upload_vars, csv, df>>

\* UploadData.post when setup succeeds: upload_data begins, no response yet.
PostUploads(p) ==
    /\ Upload(p, MaxViewRecords)
    /\ response' = [response EXCEPT ![p] = NoResponse]
    /\ UNCHANGED <<csv, df>>

\* upload_data returned: UploadData.post returns Response(res, status=200).
PostReturns(p) ==
    /\ Return(p)
    /\ response' = [response EXCEPT ![p] =
                       [view |-> "upload", raised |-> "None",
                        data |-> SuccessRes, status |-> HTTP_200_OK]]
    /\ UNCHANGED <<csv, df>>

\* SummaryReport.get: the CSV text of generate_summary, or on any exception
\* the error JSON with status 500.
SummaryReportGet(p) ==
    /\ Resting(p)
    /\ LET summary == GenerateSummary(store)
       IN  /\ store' = SummaryWrites(store)
           /\ response' = [response EXCEPT ![p] =
                  IF summary.exc = "None"
                  THEN [view |-> "report", raised |-> "None",
                        content_type |-> "text/csv",
                        body |-> summary.output, status |-> HTTP_200_OK]
                  ELSE [view |-> "report", raised |-> summary.exc,
                        data |-> [error |-> SUMMARY_REPORT_FAILURE_MESSAGE],
                        status |-> HTTP_500]]
    /\ UNCHANGED <<pc, instances, batch_size, batch_start, a_instance_index,
                   existing_product_obj, outcome, store0, batch0, last, used,
                   saves, csv, df>>

\* One client calls the two endpoints, one request after the other.
ViewNext ==
    \/ PostFails(Caller)
    \/ PostUploads(Caller)
    \/ Work(Caller)
    \/ PostReturns(Caller)
    \/ SummaryReportGet(Caller)

ViewSpec == Init /\ [][ViewNext]_vars

----------------------------------------------------------------------------
(* upload_data.py: extract_and_clean_product_data *)

\* Rows of a file.
MaxRows == 2

\* A missing cell, as read_csv yields it: not a number.
NaN == [n |-> 0, d |-> 0]

IsNa(x) == x.d = 0

\* The rows read_csv can yield: every cell a number or missing, the
\* category present. The columns cleaning does not read are left out.
RawRows ==
    [category : {"A", "B"},
     price : {NaN, Num(1), Num(3)},
     quantity_sold : {NaN, Num(2)},
     rating : {NaN, Num(4)},
     review_count : {NaN, Num(7)}]

RawFiles == UNION {[1 .. n -> RawRows] : n \in 0 .. MaxRows}

\* df[f]
Column(rows, f) == [i \in DOMAIN rows |-> rows[i][f]]

\* The cells of a column that are not missing (skipna).
NotNa(col) == SelectSeq(col, LAMBDA x : ~IsNa(x))

\* The numbers xs in ascending order.
Sorted(xs) ==
    LET n == Len(xs)
        perm == CHOOSE f \in [1 .. n -> 1 .. n] :
                    /\ \A i, j \in 1 .. n : i # j => f[i] # f[j]
                    /\ \A i \in 1 .. (n - 1) : RatLeq(xs[f[i]], xs[f[i + 1]])
    IN  [i \in 1 .. n |-> xs[perm[i]]]

\* Series.median(): the middle of the present cells, the mean of the two
\* middle ones when their number is even, NaN when none is present.
Median(col) ==
    LET xs == Sorted(NotNa(col))
        n == Len(xs)
    IN  IF n = 0 THEN NaN
        ELSE IF n % 2 = 1 THEN xs[(n + 1) \div 2]
        ELSE RatOver(RatAdd(xs[n \div 2], xs[n \div 2 + 1]), 2)

RECURSIVE SumOf(_, _)
SumOf(xs, n) == IF n = 0 THEN Num(0) ELSE RatAdd(SumOf(xs, n - 1), xs[n])

\* Series.mean(): over the present cells, NaN when none is present.
Mean(col) ==
    LET xs == NotNa(col)
    IN  IF Len(xs) = 0 THEN NaN ELSE RatOver(SumOf(xs, Len(xs)), Len(xs))

\* A fill that reaches only a temporary copy of the column.
FillNa_OnCopy(x, v) == x

\* fillna(v) on one cell. The inplace fills on df[column] are taken to
\* reach the frame.
FillNa(x, v) == IF IsNa(x) THEN v ELSE x

\* pd.to_numeric(errors="coerce") on a cell that is a number or missing.
ToNumeric(x) == IF IsNa(x) THEN NaN ELSE Rat(x.n, x.d)

\* The rows of the frame extract_and_clean_product_data returns.
ExtractAndCleanProductData(rows) ==
    LET price_median == Median(Column(rows, "price"))
        quantity_sold_median == Median(Column(rows, "quantity_sold"))
        CategoryMean(c) ==
            Mean(Column(SelectSeq(rows, LAMBDA r : r.category = c), "rating"))
    IN  [i \in DOMAIN rows |->
            [category |-> rows[i].category,
             price |-> ToNumeric(FillNa(rows[i].price, price_median)),
             quantity_sold |->
                 ToNumeric(FillNa(rows[i].quantity_sold, quantity_sold_median)),
             rating |->
                 ToNumeric(FillNa(rows[i].rating,
                                  CategoryMean(rows[i].category))),
             review_count |-> FillNa(rows[i].review_count, Num(0))]]

\* A file is read and cleaned.
ExtractAndClean ==
    /\ ~df.cleaned
    /\ df' = [cleaned |-> TRUE, rows |-> ExtractAndCleanProductData(csv)]
    /\ UNCHANGED <<upload_vars, response, csv>>

CleanInit ==
    /\ UploadInit
    /\ response = [p \in Procs |-> NoResponse]
    /\ csv \in RawFiles
    /\ df = NoFrame

CleanNext == ExtractAndClean

CleanSpec == CleanInit /\ [][CleanNext]_vars

----------------------------------------------------------------------------
(* Notions the properties share *)

\* The 1-based positions of the batch a call has just finished.
PrevBatch(p) ==
    {i \in DOMAIN instances[p] :
        i > batch_start[p] - batch_size[p] /\ i <= batch_start[p]}

\* The call has finished a batch and stands before the next one.
BatchDone(p) == pc[p] = "for_batch" /\ batch_start[p] > 0

\* The call has handled its whole list and is about to return.
AtReturn(p) == pc[p] = "for_batch" /\ batch_start[p] >= Len(instances[p])

\* The batch just finished held a product_id the table already had.
ConflictInStore(p) ==
    \E i \in PrevBatch(p) : instances[p][i].product_id \in Ids(batch0[p])

\* Position i of the call's list repeats the product_id of an earlier
\* position within S.
RepeatsIn(p, i, S) ==
    \E j \in S : j < i /\ instances[p][j].product_id
                              = instances[p][i].product_id

PassedToModify == {"conflict", "merged", "skipped", "error", "absent"}

\* Instance i of the call was inserted by its own INSERT and its row is
\* among the rows added since the batch began.
Inserted(p, i) ==
    /\ outcome[p][i] = "saved"
    /\ \E k \in DOMAIN store :
          /\ k > Len(batch0[p])
          /\ store[k].product_id = instances[p][i].product_id

\* The last statement was a call of modify_already_existing_data that
\* found a row with the incoming product_id.
LastModifyFound == last.op = "modify" /\ last.existing # NoRow

SameUpToCase(inc, row) ==
    /\ Lower(inc.product_name) = Lower(row.product_name)
    /\ Lower(inc.category) = Lower(row.category)

\* The row with the fetched row's pk after the last statement.
LastStored == last.after[last.existing.pk]

----------------------------------------------------------------------------
(* C1 *)

\* C1 as stated: when a batch's bulk insert fails because some of its
\* records carry product_ids already in the table, then once the batch is
\* finished every record of it whose product_id was not in the table has
\* been inserted, and every record whose product_id was in the table has
\* been passed to modify_already_existing_data.
C1_Original ==
    \A p \in Procs :
       (BatchDone(p) /\ ConflictInStore(p)) =>
          \A i \in PrevBatch(p) :
             IF instances[p][i].product_id \in Ids(batch0[p])
             THEN outcome[p][i] \in PassedToModify
             ELSE Inserted(p, i)

\* C1 (amended): in such a batch every record whose product_id was not in
\* the table and is not carried by an earlier record of the batch has been
\* inserted, and every other record of the batch has been passed to
\* modify_already_existing_data.
C1_SiblingsInserted ==
    \A p \in Procs :
       (BatchDone(p) /\ ConflictInStore(p)) =>
          \A i \in PrevBatch(p) :
             IF \/ instances[p][i].product_id \in Ids(batch0[p])
                \/ RepeatsIn(p, i, PrevBatch(p))
             THEN outcome[p][i] \in PassedToModify
             ELSE Inserted(p, i)

\* A finished batch with a record that conflicted with the table, placed
\* before a sibling that was inserted.
C1_Witness ==
    \E p \in Procs :
       /\ BatchDone(p) /\ ConflictInStore(p)
       /\ \E i, j \in PrevBatch(p) :
             /\ i < j
             /\ instances[p][i].product_id \in Ids(batch0[p])
             /\ outcome[p][i] \in PassedToModify
             /\ Inserted(p, j)

----------------------------------------------------------------------------
(* C2 *)

\* C2: in every reachable state, also of interleaved upload calls and of
\* lists that repeat a product_id, no two rows of the table carry the same
\* product_id.
C2_UniqueProductId ==
    \A i, j \in DOMAIN store :
       store[i].product_id = store[j].product_id => i = j

\* Two calls in progress at once, one having inserted a product_id and the
\* other having been refused the same product_id.
C2_Witness ==
    \E p, q \in Procs :
       /\ p # q
       /\ \E i \in DOMAIN outcome[p], j \in DOMAIN outcome[q] :
             /\ instances[p][i].product_id = instances[q][j].product_id
             /\ outcome[p][i] \in {"saved", "bulk"}
             /\ outcome[q][j] \in PassedToModify
             /\ instances[p][i].product_id \notin Ids(store0[q])

----------------------------------------------------------------------------
(* C3 *)

\* C3: when modify_already_existing_data finds a row with the incoming
\* product_id whose product_name or category differs from the incoming one
\* (compared in lower case), the table is left as it was and no exception
\* reaches the caller.
C3_MismatchIsNoOp ==
    (LastModifyFound /\ ~SameUpToCase(last.inc, last.existing)) =>
       /\ last.after = last.before
       /\ ~last.merged
       /\ last.exc = "None"
       /\ pc[last.by] # "raised"

\* A call of modify_already_existing_data with equal names (up to case)
\* and different categories has ended.
C3_Witness ==
    /\ LastModifyFound
    /\ Lower(last.inc.product_name) = Lower(last.existing.product_name)
    /\ Lower(last.inc.category) # Lower(last.existing.category)

----------------------------------------------------------------------------
(* C4 *)

\* C4: whenever modify_already_existing_data finds a row with the incoming
\* product_id and with product_name and category equal up to case, the
\* row's review_count afterwards is the sum of the row's and the incoming
\* review_count, for all quantities, both being 0 included.
C4_ReviewCountAdditive ==
    (LastModifyFound /\ SameUpToCase(last.inc, last.existing)) =>
       LastStored.review_count
          = last.existing.review_count + last.inc.review_count

----------------------------------------------------------------------------
(* C5 *)

\* (ev * eq + iv * iq) / (eq + iq), for eq + iq # 0.
WeightedMean(ev, eq, iv, iq) ==
    RatOver(RatAdd(RatTimes(ev, eq), RatTimes(iv, iq)), eq + iq)

\* C5: after a merge the stored price and the stored rating are the means
\* of the existing and the incoming value weighted by quantity_sold.
C5_WeightedMean ==
    (last.op = "modify" /\ last.merged) =>
       /\ LastStored.price =
             WeightedMean(last.existing.price, last.existing.quantity_sold,
                          last.inc.price, last.inc.quantity_sold)
       /\ LastStored.rating =
             WeightedMean(last.existing.rating, last.existing.quantity_sold,
                          last.inc.rating, last.inc.quantity_sold)

----------------------------------------------------------------------------
(* C6 *)

\* The positions of the call's list that carry product_id id.
Carrying(p, id) ==
    {i \in DOMAIN instances[p] : instances[p][i].product_id = id}

\* C6: when two upload calls that began on the same table have each merged
\* their one record for a product_id into the row the table had for it,
\* that row's review_count is the original one plus both incoming ones.
C6_ExactlyOnceMerge ==
    \A p, q \in Procs :
       \A i \in DOMAIN instances[p], j \in DOMAIN instances[q] :
          LET id == instances[p][i].product_id
              orig == Filter(store0[p], id)
          IN  ( /\ p # q
                /\ store0[p] = store0[q]
                /\ orig # <<>>
                /\ Carrying(p, id) = {i} /\ Carrying(q, id) = {j}
                /\ outcome[p][i] = "merged" /\ outcome[q][j] = "merged" )
              => Filter(store, id)[1].review_count
                    = orig[1].review_count
                      + instances[p][i].review_count
                      + instances[q][j].review_count

----------------------------------------------------------------------------
(* C7 *)

Handled == {"bulk", "saved", "merged", "skipped", "error", "absent",
            "failed"}

----------------------------------------------------------------------------
(* C8 *)

\* C8: a record whose product_id is neither in the table when its upload
\* call begins nor carried by an earlier record of the call is inserted and
\* never passed to the merge; an INSERT (single or bulk) adds rows equal,
\* field for field, to the records and leaves every other row as it was.
C8_NeverSeenIsPlainInsert ==
    /\ \A p \in Procs : \A i \in DOMAIN outcome[p] :
          ( /\ outcome[p][i] # "none"
            /\ instances[p][i].product_id \notin Ids(store0[p])
            /\ ~RepeatsIn(p, i, DOMAIN instances[p]) )
          => outcome[p][i] \in {"bulk", "saved"}
    /\ (last.op = "save" /\ last.exc = "None") =>
          /\ Len(last.after) = Len(last.before) + 1
          /\ SubSeq(last.after, 1, Len(last.before)) = last.before
          /\ Fields(last.after[Len(last.after)]) = last.inc
    /\ (last.op = "bulk_create" /\ last.exc = "None") =>
          /\ Len(last.after) = Len(last.before) + Len(last.batch)
          /\ SubSeq(last.after, 1, Len(last.before)) = last.before
          /\ \A k \in DOMAIN last.batch :
                Fields(last.after[Len(last.before) + k]) = last.batch[k]

\* A record with a product_id never seen has just been inserted, one by
\* one, into a table that already held another row.
C8_Witness ==
    /\ last.op = "save" /\ last.exc = "None"
    /\ last.before # <<>>
    /\ \E p \in Procs : \E i \in DOMAIN outcome[p] :
          /\ outcome[p][i] = "saved"
          /\ instances[p][i] = last.inc
          /\ last.inc.product_id \notin Ids(store0[p])

----------------------------------------------------------------------------
(* C9 *)

\* C9: when modify_already_existing_data finds a row whose product_name
\* and category differ from the incoming ones in letter case only, the
\* record is merged: the row is saved with the merged fields.
C9_CaseOnlyDifferenceMerges ==
    ( /\ LastModifyFound
      /\ SameUpToCase(last.inc, last.existing)
      /\ last.inc.product_name # last.existing.product_name
      /\ last.inc.category # last.existing.category )
    => /\ last.merged
       /\ LastStored.review_count
             = last.existing.review_count + last.inc.review_count
       /\ LastStored.quantity_sold = last.inc.quantity_sold

----------------------------------------------------------------------------
(* C10 *)

\* C10: after a merge the row's quantity_sold is the incoming record's
\* quantity_sold.
C10_QuantityReplaced ==
    (last.op = "modify" /\ last.merged) =>
       LastStored.quantity_sold = last.inc.quantity_sold

\* A merge into a row that had sold something, so that the sum and the
\* incoming quantity differ.
C10_Witness ==
    /\ last.op = "modify" /\ last.merged
    /\ last.existing.quantity_sold > 0
    /\ last.inc.quantity_sold > 0

----------------------------------------------------------------------------
(* C11 *)

\* C11: when the try block of UploadData.post raises at setup (csv_path
\* missing, file unreadable, row not matching the Product fields), the
\* response carries success false with the fixed failure message and a
\* non-success status; the success body is returned only when nothing raised.
C11_FailureResponse ==
    \A p \in Procs :
        response[p].view = "upload" =>
            /\ response[p].raised # "None" =>
                  /\ response[p].data = FailureRes
                  /\ response[p].status # HTTP_200_OK
            /\ response[p].data = SuccessRes => response[p].raised = "None"

----------------------------------------------------------------------------
(* C12, C13, C14, C20: the report *)

\* The caller's last request was a report and it returned the summary. An
\* upload request clears the response when it begins, so the table is the
\* one the summary was computed from.
Reported(p) == response[p].view = "report" /\ response[p].raised = "None"

\* The lines of the summary: <<category, total_revenue, top_product,
\* top_product_quantity_sold>>.
ReportRows(p) == response[p].body.rows

\* The positions of the stored records of category c.
InCategory(c) == {i \in DOMAIN store : store[i].category = c}

\* The sum of price * quantity_sold over the stored records at positions S.
RECURSIVE RevenueOver(_)
RevenueOver(S) ==
    IF S = {} THEN Num(0)
    ELSE LET i == CHOOSE j \in S : TRUE
         IN  RatAdd(Rat(store[i].price.n * store[i].quantity_sold,
                        store[i].price.d),
                    RevenueOver(S \ {i}))

\* C12: for a non-empty store the summary has exactly one row per distinct
\* category value of the store, and the row's total_revenue is the sum of
\* price * quantity_sold over the stored records of that category.
C12_RowPerCategoryWithRevenue ==
    \A p \in Procs :
        (Reported(p) /\ store # <<>>) =>
            LET rows == ReportRows(p)
                cats == {store[i].category : i \in DOMAIN store}
            IN  /\ \A c \in cats :
                      Cardinality({k \in DOMAIN rows : rows[k][1] = c}) = 1
                /\ \A k \in DOMAIN rows :
                      /\ rows[k][1] \in cats
                      /\ rows[k][2] = RevenueOver(InCategory(rows[k][1]))

\* A summary of two records of one category, both sold more than once in
\* total, has been returned.
C12_Witness ==
    /\ Reported(Caller)
    /\ Len(store) = 2
    /\ store[1].category = store[2].category
    /\ store[1].quantity_sold > 1
    /\ store[2].quantity_sold > 0

\* C13: the top product of a summary row is the first record of the
\* category, in table order, whose quantity_sold is the maximum over the
\* category, and top_product_quantity_sold is that maximum.
C13_TopProductFirstMaximum ==
    \A p \in Procs :
        (Reported(p) /\ store # <<>>) =>
            \A k \in DOMAIN ReportRows(p) :
                LET row == ReportRows(p)[k]
                    S == InCategory(row[1])
                    tops == {i \in S : \A j \in S :
                               store[j].quantity_sold <= store[i].quantity_sold}
                    first == CHOOSE i \in tops : \A j \in tops : i <= j
                IN  /\ row[3] = store[first].product_name
                    /\ row[4] = store[first].quantity_sold

\* A summary has been returned for a category whose two records, of
\* different names, share the maximum quantity_sold.
C13_Witness ==
    /\ Reported(Caller)
    /\ Len(store) = 2
    /\ store[1].category = store[2].category
    /\ store[1].quantity_sold = store[2].quantity_sold
    /\ store[1].product_name # store[2].product_name

C20_EmptyStoreIsError ==
    \A p \in Procs :
        (response[p].view = "report" /\ store = <<>>) =>
            /\ response[p].raised = "IndexError"
            /\ "body" \notin DOMAIN response[p]
            /\ response[p].data = [error |-> SUMMARY_REPORT_FAILURE_MESSAGE]
            /\ response[p].status = HTTP_500

\* A report has been requested while the store held no records.
C20_Witness ==
    /\ response[Caller].view = "report"
    /\ store = <<>>

----------------------------------------------------------------------------
(* C15 *)

\* C15: the cleaned frame has as many rows as the file, and in every row
\* review_count is present: 0 where the file's cell was missing, the file's
\* value where it was present.
C15_ReviewCountFilled ==
    df.cleaned =>
        /\ Len(df.rows) = Len(csv)
        /\ \A i \in DOMAIN csv :
              /\ ~IsNa(df.rows[i].review_count)
              /\ df.rows[i].review_count =
                    IF IsNa(csv[i].review_count) THEN Num(0)
                    ELSE csv[i].review_count

\* A file with a missing and a present review_count has been cleaned.
C15_Witness ==
    /\ df.cleaned
    /\ \E i, j \in DOMAIN csv :
          /\ IsNa(csv[i].review_count)
          /\ ~IsNa(csv[j].review_count)

----------------------------------------------------------------------------
(* C16 *)

\* C16: with every incoming rating within the scale 0 .. 5 and every
\* quantity non-negative, every stored rating lies within the scale and
\* every stored price is at least 0, after any sequence of uploads.
C16_RatingWithinScale ==
    \A i \in DOMAIN store :
        /\ RatLeq(Num(0), store[i].rating)
        /\ RatLeq(store[i].rating, Num(5))
        /\ RatLeq(Num(0), store[i].price)

----------------------------------------------------------------------------
(* C17 *)

\* The records of the call's list the loop has not reached yet: those past
\* the current batch while its fallback runs, those from the next batch on
\* otherwise.
NotReached(p) ==
    LET reached == IF pc[p] = "for_batch" THEN batch_start[p]
                   ELSE batch_start[p] + batch_size[p]
    IN  {i \in DOMAIN instances[p] : i > reached}

\* No record is saved twice, a record inserted by a bulk insert is never
\* saved, the records not reached are untouched, and at the end of the list
\* every record is either bulk-inserted or was saved exactly once.
EachRecordOnce ==
    \A p \in Procs :
        /\ \A i \in DOMAIN instances[p] :
              /\ saves[p][i] <= 1
              /\ outcome[p][i] = "bulk" => saves[p][i] = 0
        /\ \A i \in NotReached(p) :
              outcome[p][i] = "none" /\ saves[p][i] = 0
        /\ AtReturn(p) =>
              \A i \in DOMAIN instances[p] :
                  \/ outcome[p][i] = "bulk" /\ saves[p][i] = 0
                  \/ outcome[p][i] \notin {"bulk", "none"} /\ saves[p][i] = 1

\* C17: every call of upload_data_in_batches returns, and each record of its
\* list is inserted by its batch's bulk insert or, that insert having
\* failed, saved exactly once, the last batch being shorter or not.
C17_TerminatesEachRecordOnce ==
    /\ []EachRecordOnce
    /\ []<>(pc[Caller] = "idle")

\* A call ends whose only batch, shorter than batch_size, failed its bulk
\* insert and had each of its two records saved once.
C17_Witness ==
    /\ AtReturn(Caller)
    /\ Len(instances[Caller]) = 2
    /\ batch_size[Caller] = 3
    /\ \A i \in 1 .. 2 :
          outcome[Caller][i] \notin {"bulk", "none"} /\ saves[Caller][i] = 1

----------------------------------------------------------------------------
(* C18 *)

\* One record handled on its own: inserted when its product_id is absent,
\* otherwise the merge path (comparison, arithmetic, update) on the row
\* that carries the product_id.
HandleOne(s, inc) ==
    IF inc.product_id \notin Ids(s) THEN Append(s, Row(s, inc))
    ELSE LET existing == Filter(s, inc.product_id)[1]
             r == Merge(existing, inc)
         IN  IF IdentityMatches(inc, existing) /\ r.exc = "None"
             THEN SaveExisting(s, r.row)
             ELSE s

\* The records of a list handled one at a time, in list order.
RECURSIVE OneAtATime(_, _)
OneAtATime(s, list) ==
    IF list = <<>> THEN s
    ELSE OneAtATime(HandleOne(s, Head(list)), Tail(list))

\* C18: when a call of upload_data_in_batches ends, the store is the one
\* that handling the list's records one at a time, in list order, from the
\* call's initial store would give, whatever the batch_size.
C18_BatchSizeIndependent ==
    \A p \in Procs :
        AtReturn(p) => store = OneAtATime(store0[p], instances[p])

\* A call with batch_size 2 ends on a list of three records that repeats a
\* product_id, the store having held a record when the call began.
C18_Witness ==
    /\ AtReturn(Caller)
    /\ batch_size[Caller] = 2
    /\ Len(instances[Caller]) = 3
    /\ store0[Caller] # <<>>
    /\ \E i, j \in 1 .. 3 :
          /\ i < j
          /\ instances[Caller][i].product_id = instances[Caller][j].product_id
    /\ \E i \in 1 .. 3 : outcome[Caller][i] = "bulk"

----------------------------------------------------------------------------
(* C19 *)

\* C19: no step of an upload removes a stored record or changes its
\* product_id, product_name or category, letter case included.
C19_IdentityFieldsKept ==
    [][\A k \in DOMAIN store :
          /\ k \in DOMAIN store'
          /\ store'[k].product_id = store[k].product_id
          /\ store'[k].product_name = store[k].product_name
          /\ store'[k].category = store[k].category]_vars

\* A record has just been merged into a stored record whose name and
\* category are written in another letter case, and the stored record has
\* kept its own.
C19_Witness ==
    /\ last.op = "modify"
    /\ last.merged
    /\ last.inc.product_name # last.existing.product_name
    /\ last.inc.category # last.existing.category
    /\ store[last.existing.pk].product_name = last.existing.product_name
    /\ store[last.existing.pk].review_count # last.existing.review_count

====
